---- MODULE Spec2Model ----
(***************************************************************************)
(* The upload / validate / save page of DataDock                           *)
(* (src/frontend/src/app/page.tsx, component Home).                        *)
(*                                                                         *)
(* State is the component's React state plus the requests that are in      *)
(* flight.  Every handler is split at its awaits: the part before the      *)
(* await is one step (the click), the continuation after the await is      *)
(* another step (the response).                                            *)
(*                                                                         *)
(* Spec is the page as the operator drives it: a click reaches a handler   *)
(* only through the button that carries it, so the click steps are guarded *)
(* by the buttons' disabled / render conditions.  HandlerSpec adds the     *)
(* handlers entered in the states where their button is not offered, for   *)
(* the properties of the handlers' own guards and of clear() in any state. *)
(* LiveSpec is Spec with the fairness of the event loop.  PollSpec is Spec  *)
(* with the issue order of the liveness probes recorded.  RenderSpec is the *)
(* rendering of one preview table, a pure function of the report's data.    *)
(***************************************************************************)
EXTENDS Integers, Sequences, FiniteSets, Bags, TLC

\* ------------------------------------------------------------------ bounds
\* Distinct files the operator can pick.
MaxFiles == 1
\* Distinct preview payloads the validation service can answer with.
MaxPreviews == 1
\* Dataset options offered, out of the three of the <select>.
MaxDatasets == 1
\* Validate / save requests that may be awaiting a response at once.
MaxCalls == 2
\* Liveness probes that may be awaiting a response at once.
MaxProbes == 2
\* Rows of a preview table.
MaxRows == 25
\* Coordinates listed in error_locations for one table.
MaxErrorLocations == 2

\* ------------------------------------------------------------ value domains
\* <option> values of the dataset <select>; "" is "Select dataset...".
DatasetNames == <<"Valuations", "Risk", "P&L">>
DatasetOptions ==
    {DatasetNames[i] : i \in 1..(IF MaxDatasets < 3 THEN MaxDatasets ELSE 3)}
NoDataset == ""
\* useState<File | null>(null)
NoFile == 0
Files == 1..MaxFiles
\* useState<any>(null)
NoResult == [present |-> FALSE]
\* res.data of a successful validate call: the fields the handlers read.
Reports == [present : {TRUE}, valid : BOOLEAN, previews : 1..MaxPreviews]
\* the error object axios rejects a validate call with:
\* err.response?.status (0 when there is no response) and err.code.
Errors == {[status |-> 0,   code |-> "ERR_NETWORK"],
           [status |-> 0,   code |-> "ECONNABORTED"],
           [status |-> 400, code |-> "ERR_BAD_REQUEST"],
           [status |-> 500, code |-> "ERR_BAD_RESPONSE"],
           [status |-> 503, code |-> "ERR_BAD_RESPONSE"]}

\* rows.slice(0, 20), rows.length > 20: the rows of a table that are drawn.
DisplayCap == 20
\* Column names of the preview rows, and one that no row has.
Columns == {"id", "amount"}
AbsentColumn == "note"
\* A preview row, the object of one data row: row i carries i in each of
\* its columns; in a ragged table the odd rows lack the column "amount".
PreviewRow(i, ragged) ==
    [col \in (IF ragged /\ i % 2 = 1 THEN {"id"} ELSE Columns) |-> i]
\* result.previews[tableName]: the rows 0 .. n-1, as a sequence.
PreviewRows(n, ragged) == [k \in 1..n |-> PreviewRow(k - 1, ragged)]
\* [r, c] pairs the service may list for a table: a row before the first,
\* the first row, the last row drawn (an odd one), the first row not drawn
\* and a row past the last; columns the rows have and one they do not have.
Coordinates ==
    {<<r, c>> : r \in {-1, 0, DisplayCap - 1, DisplayCap, MaxRows},
                c \in Columns \cup {AbsentColumn}}
\* result.error_locations[tableName]: undefined, or an array of pairs.
NoLocations == [present |-> FALSE]
ErrorLocations ==
    {NoLocations} \cup
    {[present |-> TRUE, list |-> l] :
        l \in UNION {[1..k -> Coordinates] : k \in 0..MaxErrorLocations}}

VARIABLES
    dataset,         \* useState('')
    file,            \* useState<File | null>(null)
    result,          \* useState<any>(null)
    loading,         \* useState(false)
    backendStatus,   \* useState('checking')
    showValidation,  \* useState(true)
    showPreview,     \* useState(true)
    validateCalls,   \* bag of the axios.post(/validate/..) awaiting their response
    saveCalls,       \* bag of the axios.post(/save/..) awaiting their response
    probes,          \* number of axios.get(/health) awaiting their response
    mounted,         \* the effect's interval is running (no cleanup yet)
    notice,          \* the alert() raised by the step just taken, if any
    probeOrder,      \* PollSpec: the probes in flight, oldest first
    render           \* RenderSpec: one preview table and what is drawn of it

uiVars   == <<dataset, file, result, loading, showValidation, showPreview>>
callVars == <<validateCalls, saveCalls>>
pollVars == <<backendStatus, probes>>
vars     == <<dataset, file, result, loading, backendStatus, showValidation,
              showPreview, validateCalls, saveCalls, probes,
              mounted, notice, probeOrder, render>>

\* ------------------------------------------------------------------- init
\* The state after the first render and the mount effect: checkBackend()
\* has been called once and the interval is set.
PageInit ==
    /\ dataset = NoDataset
    /\ file = NoFile
    /\ result = NoResult
    /\ loading = FALSE
    /\ backendStatus = "checking"
    /\ showValidation = TRUE
    /\ showPreview = TRUE
    /\ validateCalls = EmptyBag
    /\ saveCalls = EmptyBag
    /\ probes = 1
    /\ mounted = TRUE
    /\ notice = "none"

\* No table is being drawn; the probe of the mount effect is in flight.
Init ==
    /\ PageInit
    /\ probeOrder = <<FALSE>>
    /\ render = [drawn |-> FALSE]

\* ------------------------------------------------------- what is rendered
\* The button's guard without the availability check.
ValidateDisabledIgnoringBackend ==
    loading \/ file = NoFile \/ dataset = NoDataset

\* disabled={loading || !file || !dataset || backendStatus !== 'ready'}
ValidateDisabled ==
    loading \/ file = NoFile \/ dataset = NoDataset \/ backendStatus # "ready"

\* {result && ( ... )}: the results block, which holds both toggles and the
\* Save and Clear buttons.
ResultsRendered == result.present

\* !!result?.valid
ResultValid == result.present /\ result.valid

\* {result.valid && (<button onClick={handleSave}>)} inside the results block
SaveRendered == ResultsRendered /\ result.valid

\* The Clear button placed outside the results block.
ClearRenderedAlways == TRUE

\* <button onClick={handleClear}> inside the results block
ClearRendered == ResultsRendered

\* -------------------------------------------------------- operator input

\* The <select> dropping the report held when its value changes.
ChooseDatasetDroppingReport(d) ==
    /\ mounted
    /\ d # dataset
    /\ dataset' = d
    /\ result' = NoResult
    /\ UNCHANGED <<file, loading, showValidation, showPreview,
                   callVars, pollVars, mounted>>
    /\ notice' = "none"

\* <select onChange={(e) => setDataset(e.target.value)}>: never disabled.
ChooseDataset(d) ==
    /\ mounted
    /\ d # dataset
    /\ dataset' = d
    /\ UNCHANGED <<file, result, loading, showValidation, showPreview,
                   callVars, pollVars, mounted>>
    /\ notice' = "none"

\* <input type="file" onChange=...>: setFile(e.target.files?.[0] || null);
\* f = NoFile is the picker being cancelled.  The input's own value and its
\* label are DOM state that no handler reads, and are left out: the change
\* event fires on a change of the input's value, and every file state it can
\* produce is produced here.
ChooseFile(f) ==
    /\ mounted
    /\ f # file
    /\ file' = f
    /\ UNCHANGED <<dataset, result, loading, showValidation, showPreview,
                   callVars, pollVars, mounted>>
    /\ notice' = "none"

\* onClick={() => setShowValidation(!showValidation)}
ToggleValidation ==
    /\ mounted
    /\ ResultsRendered
    /\ showValidation' = ~showValidation
    /\ UNCHANGED <<dataset, file, result, loading, showPreview,
                   callVars, pollVars, mounted>>
    /\ notice' = "none"

\* onClick={() => setShowPreview(!showPreview)}
TogglePreview ==
    /\ mounted
    /\ ResultsRendered
    /\ showPreview' = ~showPreview
    /\ UNCHANGED <<dataset, file, result, loading, showValidation,
                   callVars, pollVars, mounted>>
    /\ notice' = "none"

\* ---------------------------------------------------------------- validate
\* History kept with each call in flight.  A save call is marked superseded
\* by a clear() or a validate() that starts after it was issued; a validate
\* call is marked cleared by a clear() that runs after it was issued.
MarkCleared(calls) ==
    LET marked == {[c EXCEPT !.cleared = TRUE] : c \in BagToSet(calls)}
    IN  [c \in marked |-> CopiesIn(c, calls)
                           + CopiesIn([c EXCEPT !.cleared = FALSE], calls)]

Supersede(calls) ==
    LET marked == {[c EXCEPT !.superseded = TRUE] : c \in BagToSet(calls)}
    IN  [c \in marked |-> CopiesIn(c, calls)
                           + CopiesIn([c EXCEPT !.superseded = FALSE], calls)]

\* handleValidate up to its await.
handleValidate ==
    IF file = NoFile \/ dataset = NoDataset
    THEN /\ notice' = "missingInput"
         /\ UNCHANGED <<uiVars, callVars, pollVars, mounted>>
    ELSE /\ loading' = TRUE
         /\ result' = NoResult
         /\ validateCalls' = validateCalls (+) SetToBag({[dataset |-> dataset, file |-> file,
                                                         cleared |-> FALSE]})
         /\ saveCalls' = Supersede(saveCalls)
         /\ UNCHANGED <<dataset, file, showValidation, showPreview,
                        pollVars, mounted>>
         /\ notice' = "none"

\* A click on the Validate button.
ClickValidate ==
    /\ mounted
    /\ ~ValidateDisabled
    /\ BagCardinality(validateCalls) < MaxCalls
    /\ handleValidate

\* handleValidate entered without a selector or without a file: its own
\* guard (the button is disabled in these states).
ValidateMissingInput ==
    /\ mounted
    /\ (file = NoFile \/ dataset = NoDataset)
    /\ handleValidate

\* The catch block's choice of alert.
Classify(err) ==
    IF err.status = 500 THEN "serverError"
    ELSE IF err.code = "ERR_NETWORK" THEN "networkError"
    ELSE "validationFailed"

\* handleValidate after its await, the call fulfilled with res.data = r.
\* State setters of an unmounted component do nothing.
ValidateOk(c, r) ==
    /\ BagIn(c, validateCalls)
    /\ validateCalls' = validateCalls (-) SetToBag({c})
    /\ IF mounted
       THEN /\ result' = r
            /\ showValidation' = TRUE
            /\ showPreview' = TRUE
            /\ loading' = FALSE
       ELSE UNCHANGED <<result, showValidation, showPreview, loading>>
    /\ UNCHANGED <<dataset, file, saveCalls, pollVars, mounted>>
    /\ notice' = "none"

\* The rejection handled without the trailing setLoading(false).
ValidateFailStillLoading(c, err) ==
    /\ BagIn(c, validateCalls)
    /\ validateCalls' = validateCalls (-) SetToBag({c})
    /\ notice' = Classify(err)
    /\ UNCHANGED <<uiVars, saveCalls, pollVars, mounted>>

\* handleValidate after its await, the call rejected with err.
ValidateFail(c, err) ==
    /\ BagIn(c, validateCalls)
    /\ validateCalls' = validateCalls (-) SetToBag({c})
    /\ notice' = Classify(err)
    /\ IF mounted THEN loading' = FALSE ELSE UNCHANGED loading
    /\ UNCHANGED <<dataset, file, result, showValidation, showPreview,
                   saveCalls, pollVars, mounted>>

\* -------------------------------------------------------------------- save
\* handleSave with a guard that only looks for a report, not at its valid flag.
handleSaveAnyReport ==
    IF ~result.present
    THEN /\ notice' = "fixErrors"
         /\ UNCHANGED <<uiVars, callVars, pollVars, mounted>>
    ELSE /\ saveCalls' = saveCalls (+) SetToBag({[dataset    |-> dataset,
                                                  previews   |-> result.previews,
                                                  valid      |-> result.valid,
                                                  superseded |-> FALSE]})
         /\ UNCHANGED <<uiVars, validateCalls, pollVars, mounted>>
         /\ notice' = "none"

\* handleSave up to its await.
handleSave ==
    IF ~ResultValid
    THEN /\ notice' = "fixErrors"
         /\ UNCHANGED <<uiVars, callVars, pollVars, mounted>>
    ELSE /\ saveCalls' = saveCalls (+) SetToBag({[dataset    |-> dataset,
                                                  previews   |-> result.previews,
                                                  valid      |-> result.valid,
                                                  superseded |-> FALSE]})
         /\ UNCHANGED <<uiVars, validateCalls, pollVars, mounted>>
         /\ notice' = "none"

\* A click on the Save button.
ClickSave ==
    /\ mounted
    /\ SaveRendered
    /\ BagCardinality(saveCalls) < MaxCalls
    /\ handleSave

\* handleSave entered without a valid report: its own guard (the button is
\* not rendered in these states).
SaveNotValid ==
    /\ mounted
    /\ ~ResultValid
    /\ handleSave


\* The success path without setFile(null).
SaveOkKeepingFile(c) ==
    /\ BagIn(c, saveCalls)
    /\ saveCalls' = saveCalls (-) SetToBag({c})
    /\ notice' = "saved"
    /\ IF mounted
       THEN /\ result' = NoResult
            /\ dataset' = NoDataset
            /\ UNCHANGED file
       ELSE UNCHANGED <<result, file, dataset>>
    /\ UNCHANGED <<loading, showValidation, showPreview,
                   validateCalls, pollVars, mounted>>

\* handleSave after its await, the call fulfilled.
SaveOk(c) ==
    /\ BagIn(c, saveCalls)
    /\ saveCalls' = saveCalls (-) SetToBag({c})
    /\ notice' = "saved"
    /\ IF mounted
       THEN /\ result' = NoResult
            /\ file' = NoFile
            /\ dataset' = NoDataset
       ELSE UNCHANGED <<result, file, dataset>>
    /\ UNCHANGED <<loading, showValidation, showPreview,
                   validateCalls, pollVars, mounted>>

\* The rejection handled with the reset of the success path.
SaveFailResetting(c) ==
    /\ BagIn(c, saveCalls)
    /\ saveCalls' = saveCalls (-) SetToBag({c})
    /\ notice' = "saveFailed"
    /\ IF mounted
       THEN /\ result' = NoResult
            /\ file' = NoFile
            /\ dataset' = NoDataset
       ELSE UNCHANGED <<result, file, dataset>>
    /\ UNCHANGED <<loading, showValidation, showPreview,
                   validateCalls, pollVars, mounted>>

\* handleSave after its await, the call rejected.
SaveFail(c) ==
    /\ BagIn(c, saveCalls)
    /\ saveCalls' = saveCalls (-) SetToBag({c})
    /\ notice' = "saveFailed"
    /\ UNCHANGED <<uiVars, validateCalls, pollVars, mounted>>

\* ------------------------------------------------------------------- clear
\* The component state as one record.
View ==
    [dataset |-> dataset, file |-> file, result |-> result, loading |-> loading,
     showValidation |-> showValidation, showPreview |-> showPreview]

\* handleClear flipping the preview toggle instead of opening it.
ClearedTogglingPreview(s) ==
    [s EXCEPT !.result = NoResult,
              !.file = NoFile,
              !.dataset = NoDataset,
              !.showValidation = TRUE,
              !.showPreview = ~s.showPreview]

\* handleClear as a function of the component state.
Cleared(s) ==
    [s EXCEPT !.result = NoResult,
              !.file = NoFile,
              !.dataset = NoDataset,
              !.showValidation = TRUE,
              !.showPreview = TRUE]

handleClear ==
    /\ LET s == Cleared(View) IN
          /\ dataset' = s.dataset
          /\ file' = s.file
          /\ result' = s.result
          /\ loading' = s.loading
          /\ showValidation' = s.showValidation
          /\ showPreview' = s.showPreview
    /\ saveCalls' = Supersede(saveCalls)
    /\ validateCalls' = MarkCleared(validateCalls)
    /\ UNCHANGED <<pollVars, mounted>>
    /\ notice' = "none"

\* A click on the Clear button.
ClickClear ==
    /\ mounted
    /\ ClearRendered
    /\ handleClear

\* handleClear entered while its button is not rendered.
ClearNotRendered ==
    /\ mounted
    /\ ~ClearRendered
    /\ handleClear

\* ------------------------------------------------------- availability poll


\* An interval that is never cleared: the callback still runs after teardown.
TickAfterTeardown ==
    /\ probes < MaxProbes
    /\ probes' = probes + 1
    /\ UNCHANGED <<uiVars, callVars, backendStatus, mounted>>
    /\ notice' = "none"

\* An interval that stops probing once the service was found ready.
TickUntilReady ==
    /\ mounted
    /\ backendStatus # "ready"
    /\ probes < MaxProbes
    /\ probes' = probes + 1
    /\ UNCHANGED <<uiVars, callVars, backendStatus, mounted>>
    /\ notice' = "none"

\* setInterval(checkBackend, 2000) fires: checkBackend up to its await.
Tick ==
    /\ mounted
    /\ probes < MaxProbes
    /\ probes' = probes + 1
    /\ UNCHANGED <<uiVars, callVars, backendStatus, mounted>>
    /\ notice' = "none"

\* checkBackend after its await, a probe fulfilled.
ProbeOk ==
    /\ probes > 0
    /\ probes' = probes - 1
    /\ IF mounted THEN backendStatus' = "ready" ELSE UNCHANGED backendStatus
    /\ UNCHANGED <<uiVars, callVars, mounted>>
    /\ notice' = "none"

\* checkBackend after its await, a probe rejected.
ProbeFail ==
    /\ probes > 0
    /\ probes' = probes - 1
    /\ IF mounted THEN backendStatus' = "error" ELSE UNCHANGED backendStatus
    /\ UNCHANGED <<uiVars, callVars, mounted>>
    /\ notice' = "none"

\* The view is torn down.  The effect's cleanup runs clearInterval(interval);
\* the component's state is discarded with the component, so the state
\* variables return to their initial values, and no setter changes them
\* again.  Requests in flight stay in flight.
Unmount ==
    /\ mounted
    /\ mounted' = FALSE
    /\ dataset' = NoDataset
    /\ file' = NoFile
    /\ result' = NoResult
    /\ loading' = FALSE
    /\ showValidation' = TRUE
    /\ showPreview' = TRUE
    /\ backendStatus' = "checking"
    /\ UNCHANGED <<callVars, probes>>
    /\ notice' = "none"

\* ------------------------------------------------------------------- next
\* A step of the page draws no table and records no probe order.
Quiet == UNCHANGED <<probeOrder, render>>

\* The steps of the upload / validate / save workflow, and the teardown.
WorkflowNext ==
    \/ Quiet /\ \E d \in DatasetOptions \cup {NoDataset} : ChooseDataset(d)
    \/ Quiet /\ \E f \in Files \cup {NoFile} : ChooseFile(f)
    \/ Quiet /\ ToggleValidation
    \/ Quiet /\ TogglePreview
    \/ Quiet /\ ClickValidate
    \/ Quiet /\ \E c \in BagToSet(validateCalls), r \in Reports : ValidateOk(c, r)
    \/ Quiet /\ \E c \in BagToSet(validateCalls), err \in Errors : ValidateFail(c, err)
    \/ Quiet /\ ClickSave
    \/ Quiet /\ \E c \in BagToSet(saveCalls) : SaveOk(c)
    \/ Quiet /\ \E c \in BagToSet(saveCalls) : SaveFail(c)
    \/ Quiet /\ ClickClear
    \/ Quiet /\ Unmount

Next ==
    \/ WorkflowNext
    \/ Quiet /\ Tick
    \/ Quiet /\ ProbeOk
    \/ Quiet /\ ProbeFail

Spec == Init /\ [][Next]_vars

\* The handlers entered where the page does not offer their button.
HandlerEntry ==
    \/ Quiet /\ ValidateMissingInput
    \/ Quiet /\ SaveNotValid
    \/ Quiet /\ ClearNotRendered

HandlerNext == Next \/ HandlerEntry

\* The page together with direct entries into its handlers.
HandlerSpec == Init /\ [][HandlerNext]_vars



\* ------------------------------------------ the preview table that is drawn
Min(a, b) == IF a < b THEN a ELSE b

\* Array.prototype.slice(from, to) on a sequence: indices from .. to-1.
Slice(rows, from, to) == SubSeq(rows, from + 1, Min(to, Len(rows)))

\* rows.slice(0, 21).
DisplayedRowsOneMore(rows) == Slice(rows, 0, DisplayCap + 1)

\* rows.slice(0, 20)
DisplayedRows(rows) == Slice(rows, 0, DisplayCap)

\* result.error_locations[tableName] || []
ErrorsOf(locations) == IF locations.present THEN locations.list ELSE <<>>

\* The test with the row index taken one-based.
hasErrorOneBased(errors, rowIndex, col) ==
    \E i \in 1..Len(errors) : errors[i][1] = rowIndex + 1 /\ errors[i][2] = col

\* errors.some(([r, c]) => r === rowIndex && c === col)
hasError(errors, rowIndex, col) ==
    \E i \in 1..Len(errors) : errors[i][1] = rowIndex /\ errors[i][2] = col

\* One <tr>: key={rowIndex}, and a <td> for each entry of the row object,
\* with its value and whether it is highlighted.
TableRow(row, rowIndex, locations) ==
    [key   |-> rowIndex,
     cells |-> [col \in DOMAIN row |->
                  [value    |-> row[col],
                   hasError |-> hasError(ErrorsOf(locations), rowIndex, col)]]]

\* The <tbody>: rows.slice(0, 20).map((row, rowIndex) => ...), the map's
\* index being the position in the slice, counted from 0.
TableBody(rows, locations) ==
    LET shown == DisplayedRows(rows)
    IN  [k \in 1..Len(shown) |-> TableRow(shown[k], k - 1, locations)]

\* {rows.length > 20 && <p>Showing first 20 rows of {rows.length}</p>}:
\* the paragraph and the number of rows it reports.
NoSummary == [present |-> FALSE]
TableSummary(rows) ==
    IF Len(rows) > DisplayCap
    THEN [present |-> TRUE, first |-> DisplayCap, rowCount |-> Len(rows)]
    ELSE NoSummary

\* A report is on the page with its preview open, one of its tables given
\* and not drawn yet.
RenderInit ==
    /\ dataset = NoDataset
    /\ file = NoFile
    /\ result = [present |-> TRUE, valid |-> TRUE, previews |-> 1]
    /\ loading = FALSE
    /\ backendStatus = "ready"
    /\ showValidation = TRUE
    /\ showPreview = TRUE
    /\ validateCalls = EmptyBag
    /\ saveCalls = EmptyBag
    /\ probes = 1
    /\ mounted = TRUE
    /\ notice = "none"
    /\ probeOrder = <<FALSE>>
    /\ render \in {[drawn |-> FALSE, rows |-> PreviewRows(n, ragged), locations |-> l] :
                     n \in 0..MaxRows, ragged \in BOOLEAN, l \in ErrorLocations}

\* {showPreview && ( ... )} inside {result && ( ... )}: the table is drawn.
DrawTable ==
    /\ ResultsRendered
    /\ showPreview
    /\ ~render.drawn
    /\ render' = [drawn     |-> TRUE,
                  rows      |-> render.rows,
                  locations |-> render.locations,
                  body      |-> TableBody(render.rows, render.locations),
                  summary   |-> TableSummary(render.rows)]
    /\ UNCHANGED <<uiVars, callVars, pollVars, mounted, notice, probeOrder>>

\* The drawing of one preview table, for every table of the bounds.
RenderSpec == RenderInit /\ [][DrawTable]_vars


\* ------------------------------------------- the probes in their issue order
\* probeOrder holds one flag for each probe in flight, oldest first: whether
\* the outcome of a probe issued after it has already been applied.
\* The probe at position i is answered and its outcome applied: it leaves,
\* and the probes issued before it have now been overtaken.
Answered(i) ==
    probeOrder' = [j \in 1..(Len(probeOrder) - 1) |->
                      IF j < i THEN mounted \/ probeOrder[j] ELSE probeOrder[j + 1]]

OrderedTick ==
    /\ Tick
    /\ probeOrder' = Append(probeOrder, FALSE)
    /\ UNCHANGED render

OrderedProbeOk(i) ==
    /\ ProbeOk
    /\ Answered(i)
    /\ UNCHANGED render

OrderedProbeFail(i) ==
    /\ ProbeFail
    /\ Answered(i)
    /\ UNCHANGED render

PollNext ==
    \/ WorkflowNext
    \/ OrderedTick
    \/ \E i \in 1..Len(probeOrder) : OrderedProbeOk(i)
    \/ \E i \in 1..Len(probeOrder) : OrderedProbeFail(i)

\* The page with the issue order of its probes on record.  A response
\* arrives when the network delivers it, for any of the probes in flight.
PollSpec == Init /\ [][PollNext]_vars

\* A validate call, a save call, a probe being answered, either way.
ValidateResponse ==
    /\ Quiet
    /\ \/ \E c \in BagToSet(validateCalls), r \in Reports : ValidateOk(c, r)
       \/ \E c \in BagToSet(validateCalls), err \in Errors : ValidateFail(c, err)
SaveResponse ==
    /\ Quiet
    /\ \E c \in BagToSet(saveCalls) : SaveOk(c) \/ SaveFail(c)
ProbeResponse ==
    /\ Quiet
    /\ (ProbeOk \/ ProbeFail)

\* The page under the scheduling of its event loop: a request that was
\* issued is answered, with a response or with a failure (axios settles
\* every promise), and the interval's callback runs while it is set.
LiveSpec ==
    /\ Spec
    /\ WF_vars(ValidateResponse)
    /\ WF_vars(SaveResponse)
    /\ WF_vars(ProbeResponse)
    /\ WF_vars(Quiet /\ Tick)

TypeOK ==
    /\ notice \in {"none", "missingInput", "fixErrors", "saved", "saveFailed",
                   "serverError", "networkError", "validationFailed"}
    /\ dataset \in DatasetOptions \cup {NoDataset}
    /\ file \in Files \cup {NoFile}
    /\ result \in Reports \cup {NoResult}
    /\ loading \in BOOLEAN
    /\ backendStatus \in {"checking", "ready", "error"}
    /\ showValidation \in BOOLEAN
    /\ showPreview \in BOOLEAN
    /\ BagCardinality(validateCalls) <= MaxCalls
    /\ BagCardinality(saveCalls) <= MaxCalls
    /\ probes \in 0..MaxProbes
    /\ mounted \in BOOLEAN
    /\ probeOrder \in UNION {[1..k -> BOOLEAN] : k \in 0..MaxProbes}
    /\ render.drawn \in BOOLEAN

\* ======================================================================
\* Claims
\* ======================================================================
ValidateInFlight == BagCardinality(validateCalls) > 0
SaveInFlight == BagCardinality(saveCalls) > 0
ValidateIssued == BagCardinality(validateCalls') > BagCardinality(validateCalls)
SaveIssued == BagCardinality(saveCalls') > BagCardinality(saveCalls)

\* C1: a validate request is issued only from a state in which availability
\* is ready, the selector is non-empty and a file is present.
C1_ValidateOnlyWhenReadyAndChosen ==
    [][ValidateIssued =>
          (backendStatus = "ready" /\ dataset # NoDataset /\ file # NoFile)]_vars

\* C1 witness: a validate request has been issued and awaits its response.
C1_Witness == ValidateInFlight /\ loading

\* C2 (as claimed): whenever a validate or a save call is in flight, the
\* Validate button is disabled.
C2_ValidateDisabledWhileInFlight ==
    (ValidateInFlight \/ SaveInFlight) => ValidateDisabled

\* C3 (as claimed): at most one save request is outstanding at any time.
C3_AtMostOneSaveInFlight == BagCardinality(saveCalls) <= 1

\* C4: handleSave entered with the report absent or not valid issues no
\* request and leaves selector, file and report as they are; and every save
\* request is issued from a state whose report is valid, with that report's
\* previews.
C4_SaveWithoutValidReportIsNoOp ==
    [][/\ (~ResultValid /\ handleSave) =>
             UNCHANGED <<dataset, file, result, saveCalls, validateCalls>>
       /\ SaveIssued =>
             (ResultValid /\ \E c \in BagToSet(saveCalls') :
                                /\ c.previews = result.previews
                                /\ ~c.superseded
                                /\ CopiesIn(c, saveCalls') = CopiesIn(c, saveCalls) + 1)
      ]_vars

\* C4 witness: handleSave has just refused a report that is present and
\* not valid.
C4_Witness == notice = "fixErrors" /\ result.present /\ ~result.valid
\* Workflow phases in terms of the component state.
Idle == dataset = NoDataset /\ file = NoFile /\ ~result.present
Selecting == ~result.present /\ ~loading

C6_StaleSaveResponseDiscarded ==
    [][\A c \in BagToSet(saveCalls) :
          (c.superseded /\ (SaveOk(c) \/ SaveFail(c))) =>
              UNCHANGED <<dataset, file, result>>]_vars

\* C7 (as claimed): while the view is mounted, the Clear button is there to
\* be clicked in every state.
C7_ClearAlwaysEnabled == mounted => ENABLED ClickClear

\* C7 (amended): clear() can be invoked exactly while a report is present;
\* so it can be while a save is outstanding and the report is still shown,
\* and it cannot be in Idle, in Selecting or while a validate is in flight.
C7_ClearEnabledIffReport ==
    /\ ENABLED ClickClear <=> (mounted /\ result.present)
    /\ (Idle \/ Selecting \/ ValidateInFlight) => ~ENABLED ClickClear

\* C7 witness: a save is outstanding and clear() can be invoked.
C7_Witness == SaveInFlight /\ ENABLED ClickClear

\* C8: a clear() step ends with selector empty, file absent and report
\* absent, in a state that a second clear() would leave exactly as it is.
C8_ClearResetsAndIsIdempotent ==
    [][handleClear =>
          /\ dataset' = NoDataset /\ file' = NoFile /\ result' = NoResult
          /\ Cleared(View') = View'
          /\ Supersede(saveCalls') = saveCalls'
          /\ MarkCleared(validateCalls') = validateCalls']_vars

\* C8 witness: a state with selector, file, report and closed toggles, in
\* which clear() can run, changes the state and reaches a fixed point.
C8_Witness ==
    /\ dataset # NoDataset /\ file # NoFile /\ result.present
    /\ ~showValidation /\ ~showPreview
    /\ ENABLED (ClickClear /\ View' # View /\ Cleared(View') = View')

\* C9: handling a validate failure leaves the report absent, selector and
\* file as they were, the loading flag down and no validate in flight: the
\* workflow is in Selecting, and Validate is enabled again as soon as
\* selector and file are present and availability is ready.
C9_ValidateFailureReturnsToSelecting ==
    [][\A c \in BagToSet(validateCalls), err \in Errors :
          (mounted /\ ValidateFail(c, err)) =>
              /\ ~result'.present
              /\ dataset' = dataset /\ file' = file
              /\ ~loading' /\ ~ValidateInFlight'
              /\ Selecting'
              /\ (dataset' # NoDataset /\ file' # NoFile /\ backendStatus' = "ready")
                    => ~ValidateDisabled']_vars

\* C9 witness: a validate failure has just been handled, and selector and
\* file are still there for a retry.
C9_Witness ==
    /\ mounted
    /\ notice \in {"serverError", "networkError", "validationFailed"}
    /\ dataset # NoDataset /\ file # NoFile
    /\ Selecting

\* C10: handling a save failure leaves selector, file and report as they
\* were and sends nothing; a save request is only ever sent by a click on
\* Save.
C10_SaveFailureKeepsReportNoRetry ==
    [][/\ \A c \in BagToSet(saveCalls) :
             SaveFail(c) =>
                 /\ UNCHANGED <<dataset, file, result>>
                 /\ BagCardinality(saveCalls') = BagCardinality(saveCalls) - 1
       /\ SaveIssued => ClickSave]_vars

\* C10 witness: a save failure has just been handled and the valid report
\* is still shown.
C10_Witness == mounted /\ notice = "saveFailed" /\ ResultValid

\* C11: handling the success response of a save leaves the page Idle: the
\* dataset selector empty, no file chosen and no report held, in the state
\* reached by the step that handles the response (the state whose notice is
\* the "Saved" alert of that step).
C11_SaveSuccessReachesIdle ==
    (mounted /\ notice = "saved") => Idle

\* A save has just succeeded on a page that held a file, after which the
\* page is Idle.
C11_Witness == mounted /\ notice = "saved" /\ Idle

\* C12: once a validate call has been issued for a dataset selector (a call
\* is in flight or its report is held), the selector does not change and
\* does not become empty before the full reset of clear() or of a successful
\* save, so that a save is addressed to the selector its report was
\* validated under.
C12_SelectorFixedOnceValidated ==
    [][((ValidateInFlight \/ result.present) /\ mounted' /\ dataset' # dataset)
          => \/ ClickClear
             \/ ClearNotRendered
             \/ \E c \in BagToSet(saveCalls) : SaveOk(c)]_vars

\* C13 as stated: a report that is held stops being held only through clear()
\* or a successful save; in particular issuing a validate call, which may
\* later fail, does not discard it.
C13_ReportLeavesOnlyByClearOrSave ==
    [][(mounted' /\ result.present /\ ~result'.present)
          => \/ ClickClear
             \/ ClearNotRendered
             \/ \E c \in BagToSet(saveCalls) : SaveOk(c)]_vars

\* C13 amended: a report comes to be held, or is replaced, only by applying
\* the successful response of a validate call, whole; a report that is held
\* stops being held only through clear(), a successful save, or the issue of
\* a new validate call, which discards it at once and before that call's
\* outcome is known.
C13_ReportLifecycle ==
    [][mounted' =>
          /\ (result'.present /\ result' # result)
                => \E c \in BagToSet(validateCalls) : ValidateOk(c, result')
          /\ (result.present /\ ~result'.present)
                => \/ ClickClear
                   \/ ClearNotRendered
                   \/ \E c \in BagToSet(saveCalls) : SaveOk(c)
                   \/ ClickValidate]_vars

\* A report is held and a click on Validate is possible that discards it.
C13_Witness ==
    mounted /\ result.present /\ ENABLED (ClickValidate /\ ~result'.present)

\* The failure classes by their definition: ServiceFault for a response with
\* a server-side (5xx) status, Unreachable when no response was received,
\* Rejected for every other failure.
FailureClass(err) ==
    IF err.status >= 500 /\ err.status <= 599 THEN "serverError"
    ELSE IF err.status = 0 THEN "networkError"
    ELSE "validationFailed"

\* C14: for every response status and transport error code a validate call
\* can fail with, the class reported is the class of the definition:
\* ServiceFault for every 5xx status, Unreachable whenever there is no
\* response (connection refused and timeout alike), Rejected otherwise.
C14_ClassificationMatchesReference ==
    [][\A c \in BagToSet(validateCalls), err \in Errors :
          ValidateFail(c, err) => notice' = FailureClass(err)]_vars

\* C15: when every request issued is answered, with a response or with a
\* failure, the page always comes back from having a validate or a save call
\* in flight to a state in which no call is in flight.
C15_EventuallyNoCallInFlight ==
    (ValidateInFlight \/ SaveInFlight) ~> (~ValidateInFlight /\ ~SaveInFlight)

\* C16: the monitor keeps probing until teardown, also after it has seen the
\* service ready, and shows the outcome of the probes: a probe that succeeds
\* sets availability to ready, a probe that fails sets it to unreachable.
\* With the interval and the responses fair: if from some point on no probe
\* succeeds, availability is eventually unreachable for good (while the view
\* is mounted), and if from some point on no probe fails, it is eventually
\* ready for good.
C16_MonitorFollowsService ==
    /\ [][(mounted /\ ProbeOk) => backendStatus' = "ready"]_vars
    /\ [][(mounted /\ ProbeFail) => backendStatus' = "error"]_vars
    /\ (<>[][~ProbeOk]_vars) => <>[](mounted => backendStatus = "error")
    /\ (<>[][~ProbeFail]_vars) => <>[](mounted => backendStatus = "ready")

\* The service has been seen ready and every probe the page may have in
\* flight is in flight: the last one was issued after the page turned ready.
C16_Witness == mounted /\ backendStatus = "ready" /\ probes = MaxProbes

\* C17: once the view is torn down it stays torn down, no tick of the
\* interval fires and no probe is issued: the number of probes in flight
\* never grows again.
C17_NoProbeAfterTeardown ==
    [][~mounted => (~mounted' /\ ~Tick /\ probes' <= probes)]_vars

\* The view is torn down while the page could still have issued a probe.
C17_Witness == ~mounted /\ probes < MaxProbes

\* The coordinates listed for the table drawn, as a set.
ListedCoordinates ==
    {ErrorsOf(render.locations)[i] : i \in 1..Len(ErrorsOf(render.locations))}

\* C18: a cell that is displayed, at row index r and column c, is flagged
\* exactly when (r, c) is listed in the table's error locations, a table
\* without an entry counting as one with none listed; a coordinate whose row
\* is outside the preview or whose column the row does not have flags no
\* cell (no cell is drawn at it), and the table is drawn all the same.
C18_CellFlaggedIffListed ==
    /\ ~render.drawn => ENABLED DrawTable
    /\ render.drawn =>
          /\ \A k \in 1..Len(render.body) :
                \A col \in DOMAIN render.body[k].cells :
                    render.body[k].cells[col].hasError
                        <=> (<<k - 1, col>> \in ListedCoordinates)
          /\ \A loc \in ListedCoordinates :
                (\/ loc[1] < 0
                 \/ loc[1] >= Len(render.rows)
                 \/ loc[2] \notin DOMAIN render.rows[loc[1] + 1])
                    => ~(/\ loc[1] + 1 \in 1..Len(render.body)
                         /\ loc[2] \in DOMAIN render.body[loc[1] + 1].cells)

\* A ragged table is drawn whose listed coordinates flag a cell and include
\* one for a column the row does not have.
C18_Witness ==
    /\ render.drawn
    /\ \E k \in 1..Len(render.body) :
          \E col \in DOMAIN render.body[k].cells : render.body[k].cells[col].hasError
    /\ \E loc \in ListedCoordinates :
          /\ loc[1] >= 0
          /\ loc[1] < Len(render.rows)
          /\ loc[2] \notin DOMAIN render.rows[loc[1] + 1]

\* C19 as stated: a preview of n rows is drawn as its first min(n, 20) rows,
\* in order and under their own indices; when n > 20 a summary comes with
\* the table and reports n - 20 further rows (5 for a preview of 25), and
\* when n <= 20 there is no summary.
C19_SummaryCountsRemainingRows ==
    render.drawn =>
        /\ Len(render.body) = Min(Len(render.rows), DisplayCap)
        /\ \A k \in 1..Len(render.body) :
              /\ render.body[k].key = k - 1
              /\ \A col \in DOMAIN render.rows[k] :
                    render.body[k].cells[col].value = render.rows[k][col]
        /\ Len(render.rows) > DisplayCap
              => /\ render.summary.present
                 /\ render.summary.rowCount = Len(render.rows) - DisplayCap
        /\ Len(render.rows) <= DisplayCap => ~render.summary.present

\* C19 amended: a preview of n rows is drawn as its first min(n, 20) rows,
\* in order and under their own indices; when n > 20 a summary comes with
\* the table and reports the 20 rows shown and the n rows there are
\* ("Showing first 20 rows of n"), and when n <= 20 there is no summary.
C19_SummaryCountsAllRows ==
    render.drawn =>
        /\ Len(render.body) = Min(Len(render.rows), DisplayCap)
        /\ \A k \in 1..Len(render.body) :
              /\ render.body[k].key = k - 1
              /\ DOMAIN render.body[k].cells = DOMAIN render.rows[k]
              /\ \A col \in DOMAIN render.rows[k] :
                    render.body[k].cells[col].value = render.rows[k][col]
        /\ Len(render.rows) > DisplayCap
              => /\ render.summary.present
                 /\ render.summary.first = DisplayCap
                 /\ render.summary.rowCount = Len(render.rows)
        /\ Len(render.rows) <= DisplayCap => ~render.summary.present

\* A preview of 25 rows is drawn: 20 rows and the summary.
C19_Witness ==
    /\ render.drawn
    /\ Len(render.rows) = DisplayCap + 5
    /\ Len(render.body) = DisplayCap
    /\ render.summary.present

\* C20: the outcomes of the probes are applied in the order the probes were
\* issued: no outcome is applied that comes from a probe issued before a
\* probe whose outcome has been applied already.
C20_ProbeOutcomesInIssueOrder ==
    [][\A i \in 1..Len(probeOrder) :
          (mounted /\ (OrderedProbeOk(i) \/ OrderedProbeFail(i)))
              => ~probeOrder[i]]_vars

====
